---- MODULE Spec2Model ----
(***************************************************************************)
(* EspSerial (pytest_embedded_serial_esp/serial.py): construction of the   *)
(* device object (port discovery, target validation, chip detection,       *)
(* port-target cache) and the use_esptool wrapper that takes the port away *)
(* from the background redirect session, talks to the chip through a raw   *)
(* pyserial connection and gives the port back.                            *)
(*                                                                         *)
(* Ports are numbered; the order of the numbers is the                     *)
(* lexicographic order of the device names.  0 stands for None wherever a  *)
(* port or a handle may be None.                                           *)
(***************************************************************************)
EXTENDS Integers, Sequences, FiniteSets, TLC

\* ------------------------------------------------------------------ bounds
\* longest list esptool.get_port_list() returns
MaxAvail == 3
\* most entries of the port-target cache before a construction
MaxCache == 1
\* most wrapped calls made on a device
MaxCalls == 2

\* --------------------------------------------------------- program values
None == "None"
Ports == {1, 2, 3}
NoPort == 0
NoHandle == 0
\* get_default_connected_device returned None
NoLoader == [port |-> NoPort, chip |-> None]
\* the members of ESPTOOL_CHIPS this model keeps
ESPTOOL_CHIPS == {"esp32", "esp32s2"}
\* the values a caller passes as target / beta_target
TargetArgs == {None, "auto", "esp32", "esp32s2", "stm32"}
BetaArgs == {None, "esp32s2", "esp32x9"}
\* CHIP_NAME of the loader classes behind ESPTOOL_CHIPS
ChipNames == {"ESP32", "ESP32-S2"}
\* line settings of a serial connection: as opened from port_config, or as
\* esptool left them (baud rate, timeouts)
PortConfig == "port_config"
Callers == {1, 2}
Devices == {1, 2}

VARIABLES
    \* ---- EspSerial.__init__
    cpc,            \* position of the constructor
    target,         \* argument target
    beta_target,    \* argument beta_target
    port,           \* argument port (NoPort: discover)
    occupied,       \* keys of Serial.occupied_ports
    cache,          \* _port_target_cache, a sequence of <<port, target>> in insertion order
    available,      \* what esptool.get_port_list() returned
    ports,          \* the list handed to get_default_connected_device
    esptool_target, \* beta_target or target
    detectCalls,    \* number of calls of get_default_connected_device
    found,          \* the loader it returned: [port, chip] or NoLoader
    detOpen,        \* esp._port of that loader is open
    selfTarget,     \* self.target
    selfPort,       \* self.port
    \* ---- device state shared by the wrapped calls
    bgActive,       \* the redirect (log forwarding) session is running
    esp,            \* self.esp: NoHandle or the number of the call that set it
    stub,           \* self.stub: NoHandle or the number of the call that set it
    lineSettings,   \* line settings of the port
    rawOpen,        \* numbers of the calls whose raw connection _s is open
    calls,          \* number of wrapped calls started
    \* ---- per caller: one activation of use_esptool.wrapper
    pc, sess, op, killed, settings, exc, ret, outcome,
    \* ---- per caller: what happened during the activation
    opened, resumes, resetOn, faults, pre, healthy,
    \* ---- the operations of the wrapped calls made so far, in order
    ops,
    \* ---- the cache as it was when __init__ was called
    cache0,
    \* ---- devices constructed on one shared cache
    dpc,            \* per device: "none", "resolved" (before _post_init), "bound"
    devPort,        \* per device: self.port
    devTarget,      \* per device: self.target
    started,        \* number of constructions started
    lastBind,       \* per port: the target of the last _post_init completed on it
    overlapped      \* a _post_init ran while another device was before its own

ctorVars == <<cpc, target, beta_target, port, occupied, cache, available, ports,
              esptool_target, detectCalls, found, detOpen, selfTarget, selfPort>>
devVars == <<bgActive, esp, stub, lineSettings, rawOpen, calls>>
callVars == <<pc, sess, op, killed, settings, exc, ret, outcome>>
histVars == <<opened, resumes, resetOn, faults, pre, healthy, ops>>
bindVars == <<dpc, devPort, devTarget, started, lastBind, overlapped>>
vars == <<ctorVars, devVars, callVars, histVars, cache0, bindVars>>

\* ------------------------------------------------- the redirect session
\* Serial.disable_redirect_serial, entering: the session is stopped if it runs
SessionStopped(bg) == FALSE
\* Serial.disable_redirect_serial, leaving: the session this activation
\* stopped is started again, on every way out of the block
SessionResumed(k, bg) == IF k THEN TRUE ELSE bg
\* Serial.__init__: the session is started on the resolved port
SessionStarted == TRUE

\* ------------------------------------------------ use_esptool.wrapper
Upd(f, t, v) == [f EXCEPT ![t] = v]

\* an exception leaves the try block or the finally block of the wrapper
Raised(t, e, where) ==
    /\ exc' = Upd(exc, t, e)
    /\ pc' = Upd(pc, t, where)

\* a step of an external library (pyserial, esptool) failed in this activation
Fault(t, f) ==
    /\ faults' = Upd(faults, t, faults[t] \cup {f})
    /\ healthy' = FALSE

NoFault == UNCHANGED <<faults, healthy>>

\* esptool reconfigures the connection it is given (baud rate, timeouts)
EsptoolTouches(s) == {s, "esptool"}

\* wrapper is called; `with self.disable_redirect_serial():` is entered
WrapperEnter(t) ==
    /\ cpc = "constructed"
    /\ pc[t] \in {"idle", "done"}
    /\ calls < MaxCalls
    /\ \E o \in {"hard_reset", "custom"} :
          /\ op' = Upd(op, t, o)
          /\ ops' = Append(ops, o)
    /\ calls' = calls + 1
    /\ sess' = Upd(sess, t, calls + 1)
    /\ killed' = Upd(killed, t, bgActive)
    /\ bgActive' = SessionStopped(bgActive)
    /\ pc' = Upd(pc, t, "open")
    /\ settings' = Upd(settings, t, None)
    /\ exc' = Upd(exc, t, "none")
    /\ ret' = Upd(ret, t, "unset")
    /\ outcome' = Upd(outcome, t, "running")
    /\ opened' = Upd(opened, t, FALSE)
    /\ resumes' = Upd(resumes, t, 0)
    /\ resetOn' = Upd(resetOn, t, -1)
    /\ faults' = Upd(faults, t, {})
    /\ pre' = Upd(pre, t, lineSettings)
    /\ UNCHANGED <<ctorVars, cache0, bindVars, esp, stub, lineSettings, rawOpen, healthy>>

\* _s = pyserial.serial_for_url(self.port, **self.port_config)
\* settings = _s.get_settings()
OpenRaw(t) ==
    /\ pc[t] = "open"
    /\ \/ /\ rawOpen' = rawOpen \cup {sess[t]}
          /\ lineSettings' = PortConfig
          /\ settings' = Upd(settings, t, lineSettings')
          /\ opened' = Upd(opened, t, TRUE)
          /\ pc' = Upd(pc, t, "detect")
          /\ NoFault
          /\ UNCHANGED exc
       \/ /\ Raised(t, "open", "exit")
          /\ Fault(t, "open")
          /\ UNCHANGED <<rawOpen, lineSettings, settings, opened>>
    /\ UNCHANGED <<ctorVars, cache0, bindVars, bgActive, esp, stub, calls, sess, op, killed, ret,
                   outcome, resumes, resetOn, pre, ops>>

\* self.esp = esptool.detect_chip(_s, self.baud)
DetectChip(t) ==
    /\ pc[t] = "detect"
    /\ lineSettings' \in EsptoolTouches(lineSettings)
    /\ \/ /\ esp' = sess[t]
          /\ pc' = Upd(pc, t, "connect")
          /\ NoFault
          /\ UNCHANGED exc
       \/ /\ Raised(t, "detect", "reset")
          /\ Fault(t, "detect")
          /\ UNCHANGED esp
    /\ UNCHANGED <<ctorVars, cache0, bindVars, bgActive, stub, rawOpen, calls, sess, op, killed,
                   settings, ret, outcome, opened, resumes, resetOn, pre, ops>>

\* self.esp.connect('hard_reset')
Connect(t) ==
    /\ pc[t] = "connect"
    /\ lineSettings' \in EsptoolTouches(lineSettings)
    /\ \/ /\ pc' = Upd(pc, t, "run_stub")
          /\ NoFault
          /\ UNCHANGED exc
       \/ /\ Raised(t, "connect", "reset")
          /\ Fault(t, "connect")
    /\ UNCHANGED <<ctorVars, cache0, bindVars, bgActive, esp, stub, rawOpen, calls, sess, op, killed,
                   settings, ret, outcome, opened, resumes, resetOn, pre, ops>>

\* self.stub = self.esp.run_stub()
RunStub(t) ==
    /\ pc[t] = "run_stub"
    /\ lineSettings' \in EsptoolTouches(lineSettings)
    /\ \/ /\ stub' = sess[t]
          /\ pc' = Upd(pc, t, "func")
          /\ NoFault
          /\ UNCHANGED exc
       \/ /\ Raised(t, "run_stub", "reset")
          /\ Fault(t, "run_stub")
          /\ UNCHANGED stub
    /\ UNCHANGED <<ctorVars, cache0, bindVars, bgActive, esp, rawOpen, calls, sess, op, killed,
                   settings, ret, outcome, opened, resumes, resetOn, pre, ops>>

\* ret = func(self, *args, **kwargs); the body of hard_reset is `pass`
Func(t) ==
    /\ pc[t] = "func"
    /\ \/ /\ op[t] = "hard_reset"
          /\ ret' = Upd(ret, t, None)
          /\ pc' = Upd(pc, t, "reset")
          /\ NoFault
          /\ UNCHANGED <<exc, lineSettings>>
       \/ /\ op[t] = "custom"
          /\ lineSettings' \in EsptoolTouches(lineSettings)
          /\ \/ /\ ret' = Upd(ret, t, "result")
                /\ pc' = Upd(pc, t, "reset")
                /\ NoFault
                /\ UNCHANGED exc
             \/ /\ Raised(t, "op", "reset")
                /\ Fault(t, "op")
                /\ UNCHANGED ret
    /\ UNCHANGED <<ctorVars, cache0, bindVars, bgActive, esp, stub, rawOpen, calls, sess, op, killed,
                   settings, outcome, opened, resumes, resetOn, pre, ops>>

\* the hard reset wrapped in a handler that drops what it raises
FinallyHardReset_Swallowed(t) ==
    /\ pc[t] = "reset"
    /\ resetOn' = Upd(resetOn, t, stub)
    /\ pc' = Upd(pc, t, "restore")
    /\ \/ NoFault
       \/ stub # NoHandle /\ Fault(t, "reset")
    /\ UNCHANGED <<ctorVars, cache0, bindVars, bgActive, esp, stub, lineSettings, rawOpen, calls, sess,
                   op, killed, settings, exc, ret, outcome, opened, resumes, pre, ops>>

\* finally: self.stub.hard_reset()
FinallyHardReset(t) ==
    /\ pc[t] = "reset"
    /\ resetOn' = Upd(resetOn, t, stub)
    /\ \/ /\ stub = NoHandle
          /\ Raised(t, "AttributeError", "exit")
          /\ NoFault
       \/ /\ stub # NoHandle
          /\ \/ /\ pc' = Upd(pc, t, "restore")
                /\ NoFault
                /\ UNCHANGED exc
             \/ /\ Raised(t, "reset", "exit")
                /\ Fault(t, "reset")
    /\ UNCHANGED <<ctorVars, cache0, bindVars, bgActive, esp, stub, lineSettings, rawOpen, calls, sess,
                   op, killed, settings, ret, outcome, opened, resumes, pre, ops>>

\* the settings are not applied again
ApplySettings_Skipped(t) ==
    /\ pc[t] = "restore"
    /\ pc' = Upd(pc, t, "close")
    /\ NoFault
    /\ UNCHANGED <<ctorVars, cache0, bindVars, devVars, sess, op, killed, settings, exc, ret, outcome,
                   opened, resumes, resetOn, pre, ops>>

\* finally: _s.apply_settings(settings)
ApplySettings(t) ==
    /\ pc[t] = "restore"
    /\ \/ /\ lineSettings' = settings[t]
          /\ pc' = Upd(pc, t, "close")
          /\ NoFault
          /\ UNCHANGED exc
       \/ /\ Raised(t, "restore", "exit")
          /\ Fault(t, "restore")
          /\ UNCHANGED lineSettings
    /\ UNCHANGED <<ctorVars, cache0, bindVars, bgActive, esp, stub, rawOpen, calls, sess, op, killed,
                   settings, ret, outcome, opened, resumes, resetOn, pre, ops>>

\* finally: _s.close()
CloseRaw(t) ==
    /\ pc[t] = "close"
    /\ \/ /\ rawOpen' = rawOpen \ {sess[t]}
          /\ pc' = Upd(pc, t, "exit")
          /\ NoFault
          /\ UNCHANGED exc
       \/ /\ Raised(t, "close", "exit")
          /\ Fault(t, "close")
          /\ rawOpen' \in {rawOpen, rawOpen \ {sess[t]}}
    /\ UNCHANGED <<ctorVars, cache0, bindVars, bgActive, esp, stub, lineSettings, calls, sess, op,
                   killed, settings, ret, outcome, opened, resumes, resetOn, pre, ops>>

\* disable_redirect_serial used without `with`: an exception skips its second half
WrapperExit_NoResumeOnError(t) ==
    /\ pc[t] = "exit"
    /\ bgActive' = IF exc[t] = "none" THEN SessionResumed(killed[t], bgActive) ELSE bgActive
    /\ resumes' = Upd(resumes, t,
                      resumes[t] + (IF killed[t] /\ exc[t] = "none" THEN 1 ELSE 0))
    /\ outcome' = Upd(outcome, t, IF exc[t] # "none" THEN exc[t] ELSE "returned")
    /\ pc' = Upd(pc, t, "done")
    /\ UNCHANGED <<ctorVars, cache0, bindVars, esp, stub, lineSettings, rawOpen, calls, sess, op,
                   killed, settings, exc, ret, opened, resetOn, faults, pre, healthy, ops>>

\* the with block is left (the redirect session is started again), then
\* `return ret` or the pending exception reaches the caller
WrapperExit(t) ==
    /\ pc[t] = "exit"
    /\ bgActive' = SessionResumed(killed[t], bgActive)
    /\ resumes' = Upd(resumes, t, resumes[t] + (IF killed[t] THEN 1 ELSE 0))
    /\ outcome' = Upd(outcome, t, IF exc[t] # "none" THEN exc[t] ELSE "returned")
    /\ pc' = Upd(pc, t, "done")
    /\ UNCHANGED <<ctorVars, cache0, bindVars, esp, stub, lineSettings, rawOpen, calls, sess, op,
                   killed, settings, exc, ret, opened, resetOn, faults, pre, healthy, ops>>

Step(t) ==
    \/ WrapperEnter(t)
    \/ OpenRaw(t)
    \/ DetectChip(t)
    \/ Connect(t)
    \/ RunStub(t)
    \/ Func(t)
    \/ FinallyHardReset(t)
    \/ ApplySettings(t)
    \/ CloseRaw(t)
    \/ WrapperExit(t)

\* ---------------------------------------------- the constructed device
\* the state __init__ leaves: esp and stub are None, the redirect session runs
IdleCallers ==
    /\ pc = [t \in Callers |-> "idle"]
    /\ sess = [t \in Callers |-> 0]
    /\ op = [t \in Callers |-> "hard_reset"]
    /\ killed = [t \in Callers |-> FALSE]
    /\ settings = [t \in Callers |-> None]
    /\ exc = [t \in Callers |-> "none"]
    /\ ret = [t \in Callers |-> "unset"]
    /\ outcome = [t \in Callers |-> "running"]
    /\ opened = [t \in Callers |-> FALSE]
    /\ resumes = [t \in Callers |-> 0]
    /\ resetOn = [t \in Callers |-> -1]
    /\ faults = [t \in Callers |-> {}]
    /\ pre = [t \in Callers |-> PortConfig]
    /\ healthy = TRUE
    /\ ops = <<>>

\* no other device is being constructed
NoOtherDevice ==
    /\ dpc = [d \in Devices |-> "none"]
    /\ devPort = [d \in Devices |-> NoPort]
    /\ devTarget = [d \in Devices |-> None]
    /\ started = 0
    /\ lastBind = [p \in Ports |-> None]
    /\ overlapped = FALSE

Init ==
    /\ cpc = "constructed"
    /\ target = "esp32"
    /\ beta_target = None
    /\ port = NoPort
    /\ occupied = {}
    /\ available = <<1>>
    /\ ports = <<1>>
    /\ esptool_target = target
    /\ detectCalls = 1
    /\ found = [port |-> 1, chip |-> "ESP32"]
    /\ detOpen = FALSE
    /\ selfTarget = "esp32"
    /\ selfPort = 1
    /\ cache = << <<1, "esp32">> >>
    /\ cache0 = <<>>
    /\ NoOtherDevice
    /\ bgActive = TRUE
    /\ esp = NoHandle
    /\ stub = NoHandle
    /\ lineSettings = PortConfig
    /\ rawOpen = {}
    /\ calls = 0
    /\ IdleCallers

\* one caller: the wrapped calls of a device follow one another
Next == \E t \in {1} : Step(t)
Spec == Init /\ [][Next]_vars

\* two callers of the same device, no scheduling assumed between them
NextConc == \E t \in Callers : Step(t)
SpecConc == Init /\ [][NextConc]_vars

\* ------------------------------------------------- EspSerial.__init__
SetOf(q) == {q[i] : i \in DOMAIN q}

Min(S) == CHOOSE x \in S : \A y \in S : x <= y

\* list.sort() of a list without duplicates
RECURSIVE SortAsc(_)
SortAsc(S) == IF S = {} THEN <<>> ELSE <<Min(S)>> \o SortAsc(S \ {Min(S)})

\* the set turned into a list and never sorted: the ports in the order listed
RECURSIVE InListedOrder(_, _)
InListedOrder(avail, keep) ==
    IF avail = <<>> THEN <<>>
    ELSE IF Head(avail) \in keep
         THEN <<Head(avail)>> \o InListedOrder(Tail(avail), keep \ {Head(avail)})
         ELSE InListedOrder(Tail(avail), keep)

CandidatePorts_Unsorted(avail, occ) == InListedOrder(avail, SetOf(avail) \ occ)

\* the occupied ports are not taken out
CandidatePorts_KeepOccupied(avail, occ) == SortAsc(SetOf(avail))

\* ports = list(set(available_ports) - set(self.occupied_ports.keys())); ports.sort()
CandidatePorts(avail, occ) == SortAsc(SetOf(avail) \ occ)

\* the key negated: the cached port is moved to the head of the list
SortByIsPort_First(ps, p) ==
    SelectSeq(ps, LAMBDA x : x = p) \o SelectSeq(ps, LAMBDA x : x # p)

\* ports.sort(key=lambda x: x == _port): a stable sort, False before True
SortByIsPort(ps, p) ==
    SelectSeq(ps, LAMBDA x : x # p) \o SelectSeq(ps, LAMBDA x : x = p)

\* no `_port in ports` test, and the cached port put at the end of the list
RECURSIVE Prioritize_AddsCached(_, _, _)
Prioritize_AddsCached(ps, c, et) ==
    IF c = <<>> THEN ps
    ELSE LET _port == Head(c)[1]
             _target == Head(c)[2]
         IN Prioritize_AddsCached(IF _target = et
                                  THEN SelectSeq(ps, LAMBDA x : x # _port) \o <<_port>>
                                  ELSE ps,
                                  Tail(c), et)

\* for _port, _target in self._port_target_cache.items(): ...
RECURSIVE Prioritize(_, _, _)
Prioritize(ps, c, et) ==
    IF c = <<>> THEN ps
    ELSE LET _port == Head(c)[1]
             _target == Head(c)[2]
         IN Prioritize(IF _target = et /\ _port \in SetOf(ps)
                       THEN SortByIsPort(ps, _port) ELSE ps,
                       Tail(c), et)

\* truth value of an Optional[str]
Truthy(x) == x # None /\ x # ""

\* esptool_target = beta_target or target
EffectiveTarget(b, tg) == IF Truthy(b) THEN b ELSE tg

\* esptool_target not in (['auto'] + self.ESPTOOL_CHIPS) is what raises
IsSupported(et) == et \in ({"auto"} \cup ESPTOOL_CHIPS)

\* esp.CHIP_NAME.lower().replace('-', '')
Normalize(name) ==
    CASE name = "ESP32" -> "esp32"
      [] name = "ESP32-S2" -> "esp32s2"
      [] OTHER -> name

\* the loaders get_default_connected_device may return for a requested chip
LoadersFor(ps, et) ==
    {[port |-> p, chip |-> c] : p \in SetOf(ps),
                                c \in {n \in ChipNames : et = "auto" \/ Normalize(n) = et}}

\* the cache replaced by a dictionary holding the one new entry
CacheSet_Rebuilt(c, p, tg) == << <<p, tg>> >>

\* self._port_target_cache[self.port] = self.target
RECURSIVE CacheSet(_, _, _)
CacheSet(c, p, tg) ==
    IF c = <<>> THEN << <<p, tg>> >>
    ELSE IF Head(c)[1] = p THEN << <<p, tg>> >> \o Tail(c)
    ELSE <<Head(c)>> \o CacheSet(Tail(c), p, tg)

\* lines 56-76: the candidate list
CtorPorts ==
    /\ cpc = "start"
    /\ esptool_target' = EffectiveTarget(beta_target, target)
    /\ \/ /\ port = NoPort
          /\ \E av \in UNION {[1..n -> Ports] : n \in 0..MaxAvail} :
                /\ available' = av
                /\ ports' = IF Truthy(esptool_target')
                            THEN Prioritize(CandidatePorts(av, occupied), cache, esptool_target')
                            ELSE CandidatePorts(av, occupied)
       \/ /\ port # NoPort
          /\ ports' = <<port>>
          /\ UNCHANGED available
    /\ cpc' = "validate"
    /\ UNCHANGED <<target, beta_target, port, occupied, cache, detectCalls, found,
                   detOpen, selfTarget, selfPort, devVars, callVars, histVars, cache0, bindVars>>

\* the check made only on the discovery path
CtorValidate_DiscoveryOnly ==
    /\ cpc = "validate"
    /\ cpc' = IF port # NoPort \/ IsSupported(esptool_target)
              THEN "detect" ELSE "UnsupportedTarget"
    /\ UNCHANGED <<target, beta_target, port, occupied, cache, available, ports,
                   esptool_target, detectCalls, found, detOpen, selfTarget, selfPort,
                   devVars, callVars, histVars, cache0, bindVars>>

\* lines 79-83: raise ValueError for a target esptool does not support
CtorValidate ==
    /\ cpc = "validate"
    /\ cpc' = IF IsSupported(esptool_target) THEN "detect" ELSE "UnsupportedTarget"
    /\ UNCHANGED <<target, beta_target, port, occupied, cache, available, ports,
                   esptool_target, detectCalls, found, detOpen, selfTarget, selfPort,
                   devVars, callVars, histVars, cache0, bindVars>>

\* the cache entries of the ports tried are dropped when nothing is found
CtorDetect_Evicts ==
    /\ cpc = "detect"
    /\ detectCalls' = detectCalls + 1
    /\ \/ /\ found' = NoLoader
          /\ cpc' = "DeviceNotFound"
          /\ cache' = SelectSeq(cache, LAMBDA e : e[1] \notin SetOf(ports))
          /\ UNCHANGED detOpen
       \/ /\ found' \in LoadersFor(ports, esptool_target)
          /\ detOpen' = TRUE
          /\ cpc' = "close"
          /\ UNCHANGED cache
    /\ UNCHANGED <<target, beta_target, port, occupied, available, ports,
                   esptool_target, selfTarget, selfPort, devVars, callVars, histVars,
                   cache0, bindVars>>

\* detection called again after it found nothing
CtorDetect_Retried ==
    /\ cpc = "detect"
    /\ detectCalls' = detectCalls + 1
    /\ \/ /\ found' = NoLoader
          /\ cpc' = IF detectCalls = 0 THEN "detect" ELSE "DeviceNotFound"
          /\ UNCHANGED detOpen
       \/ /\ found' \in LoadersFor(ports, esptool_target)
          /\ detOpen' = TRUE
          /\ cpc' = "close"
    /\ UNCHANGED <<target, beta_target, port, occupied, cache, available, ports,
                   esptool_target, selfTarget, selfPort, devVars, callVars, histVars,
                   cache0, bindVars>>

\* lines 85-94: esptool.get_default_connected_device(ports, port=port, ...)
CtorDetect ==
    /\ cpc = "detect"
    /\ detectCalls' = detectCalls + 1
    /\ \/ /\ found' = NoLoader
          /\ cpc' = "DeviceNotFound"
          /\ UNCHANGED detOpen
       \/ /\ found' \in LoadersFor(ports, esptool_target)
          /\ detOpen' = TRUE
          /\ cpc' = "close"
    /\ UNCHANGED <<target, beta_target, port, occupied, cache, available, ports,
                   esptool_target, selfTarget, selfPort, devVars, callVars, histVars, cache0, bindVars>>

\* esp._port.close() left out
CtorClosePort_LeftOpen ==
    /\ cpc = "close"
    /\ esp' = NoHandle
    /\ stub' = NoHandle
    /\ selfTarget' = Normalize(found.chip)
    /\ cpc' = "super"
    /\ UNCHANGED <<target, beta_target, port, occupied, cache, available, ports,
                   esptool_target, detectCalls, found, detOpen, selfPort, bgActive,
                   lineSettings, rawOpen, calls, callVars, histVars, cache0, bindVars>>

\* lines 96-108: esp._port.close(); self.esp = None; self.stub = None; self.target
CtorClosePort ==
    /\ cpc = "close"
    /\ detOpen' = FALSE
    /\ esp' = NoHandle
    /\ stub' = NoHandle
    /\ selfTarget' = Normalize(found.chip)
    /\ cpc' = "super"
    /\ UNCHANGED <<target, beta_target, port, occupied, cache, available, ports,
                   esptool_target, detectCalls, found, selfPort, bgActive, lineSettings,
                   rawOpen, calls, callVars, histVars, cache0, bindVars>>

\* line 109: super().__init__(msg_queue, esp.serial_port, baud, **kwargs)
CtorSuperInit ==
    /\ cpc = "super"
    /\ selfPort' = found.port
    /\ bgActive' = SessionStarted
    /\ cpc' = "post_init"
    /\ UNCHANGED <<target, beta_target, port, occupied, cache, available, ports,
                   esptool_target, detectCalls, found, detOpen, selfTarget, esp, stub,
                   lineSettings, rawOpen, calls, callVars, histVars, cache0, bindVars>>

\* lines 111-114: _post_init
CtorPostInit ==
    /\ cpc = "post_init"
    /\ cache' = CacheSet(cache, selfPort, selfTarget)
    /\ cpc' = "constructed"
    /\ UNCHANGED <<target, beta_target, port, occupied, available, ports,
                   esptool_target, detectCalls, found, detOpen, selfTarget, selfPort,
                   devVars, callVars, histVars, cache0, bindVars>>

\* the caches earlier constructions can leave: one target per port
Caches ==
    {c \in UNION {[1..n -> Ports \X ESPTOOL_CHIPS] : n \in 0..MaxCache} :
        \A i, j \in DOMAIN c : i # j => c[i][1] # c[j][1]}

InitCtor ==
    /\ cpc = "start"
    /\ target \in TargetArgs
    /\ beta_target \in BetaArgs
    /\ beta_target # None => target \in {"esp32", "stm32"}
    /\ port \in Ports \cup {NoPort}
    /\ occupied \in SUBSET Ports
    /\ cache \in Caches
    /\ cache0 = cache
    /\ NoOtherDevice
    /\ available = <<>>
    /\ ports = <<>>
    /\ esptool_target = None
    /\ detectCalls = 0
    /\ found = NoLoader
    /\ detOpen = FALSE
    /\ selfTarget = None
    /\ selfPort = NoPort
    /\ bgActive = FALSE
    /\ esp = NoHandle
    /\ stub = NoHandle
    /\ lineSettings = PortConfig
    /\ rawOpen = {}
    /\ calls = 0
    /\ IdleCallers

NextCtor ==
    \/ CtorPorts
    \/ CtorValidate
    \/ CtorDetect
    \/ CtorClosePort
    \/ CtorSuperInit
    \/ CtorPostInit
SpecCtor == InitCtor /\ [][NextCtor]_vars

\* --------------------------- several devices on one port-target cache
\* most constructions started on the shared cache
MaxBinds == 3

\* __init__ of a device up to and including line 109: a port is chosen, the
\* target is the normalized chip name, the connection is established
BindResolved(d) ==
    /\ dpc[d] \in {"none", "bound"}
    /\ started < MaxBinds
    /\ started' = started + 1
    /\ \E p \in Ports, c \in ChipNames :
          /\ devPort' = Upd(devPort, d, p)
          /\ devTarget' = Upd(devTarget, d, Normalize(c))
    /\ dpc' = Upd(dpc, d, "resolved")
    /\ UNCHANGED <<ctorVars, devVars, callVars, histVars, cache0, lastBind, overlapped>>

\* _post_init of a device: self._port_target_cache[self.port] = self.target,
\* one dictionary store
PostInit(d) ==
    /\ dpc[d] = "resolved"
    /\ cache' = CacheSet(cache, devPort[d], devTarget[d])
    /\ lastBind' = [lastBind EXCEPT ![devPort[d]] = devTarget[d]]
    /\ overlapped' = (overlapped \/ \E e \in Devices \ {d} : dpc[e] = "resolved")
    /\ dpc' = Upd(dpc, d, "bound")
    /\ UNCHANGED <<cpc, target, beta_target, port, occupied, available, ports,
                   esptool_target, detectCalls, found, detOpen, selfTarget, selfPort,
                   devVars, callVars, histVars, cache0, devPort, devTarget, started>>

\* the targets a cache records for a port
CacheTargets(c, p) == {c[i][2] : i \in {k \in DOMAIN c : c[k][1] = p}}

InitBind ==
    /\ cpc = "shared"
    /\ target = None
    /\ beta_target = None
    /\ port = NoPort
    /\ occupied = {}
    /\ cache \in Caches
    /\ cache0 = cache
    /\ available = <<>>
    /\ ports = <<>>
    /\ esptool_target = None
    /\ detectCalls = 0
    /\ found = NoLoader
    /\ detOpen = FALSE
    /\ selfTarget = None
    /\ selfPort = NoPort
    /\ bgActive = FALSE
    /\ esp = NoHandle
    /\ stub = NoHandle
    /\ lineSettings = PortConfig
    /\ rawOpen = {}
    /\ calls = 0
    /\ IdleCallers
    /\ dpc = [d \in Devices |-> "none"]
    /\ devPort = [d \in Devices |-> NoPort]
    /\ devTarget = [d \in Devices |-> None]
    /\ started = 0
    /\ lastBind = [p \in Ports |->
                      IF CacheTargets(cache, p) = {} THEN None
                      ELSE CHOOSE tg \in CacheTargets(cache, p) : TRUE]
    /\ overlapped = FALSE

NextBind == \E d \in Devices : BindResolved(d) \/ PostInit(d)
SpecBind == InitBind /\ [][NextBind]_vars

\* ================================================================ claims
Past(t, places) == pc[t] \in places

CleanupFaults == {"reset", "restore", "close"}

\* ---- C1
\* C1: an activation of the wrapper that stopped the redirect session has
\* started it again exactly once when the call has returned or raised, whichever
\* step failed; before that it has not started it.
C1_ResumedExactlyOnce ==
    \A t \in Callers :
        /\ (pc[t] = "done" /\ killed[t]) => (resumes[t] = 1 /\ bgActive)
        /\ (pc[t] \notin {"idle", "done"}) => resumes[t] = 0

C1_Witness ==
    \E t \in Callers :
        /\ pc[t] = "done" /\ killed[t]
        /\ outcome[t] \in {"open", "detect", "connect", "run_stub", "op",
                           "AttributeError", "reset", "restore", "close"}
        /\ resumes[t] = 1

\* ---- C2
\* C2: when an activation that opened the raw connection has returned or
\* raised, the line settings of the port are the ones captured right after the
\* connection was opened.
C2_SettingsRestored ==
    \A t \in Callers :
        (pc[t] = "done" /\ opened[t]) => lineSettings = settings[t]

\* ---- C3
\* C3: the port never has two owners: while the redirect session runs no raw
\* connection of a wrapped call is open (the session is stopped before the
\* connection is opened and started only after it is closed).
C3_SingleOwner == bgActive => rawOpen = {}

\* ---- C4
\* C4: once the hard-reset step of the cleanup is over, a hard reset has been
\* attempted exactly when this activation obtained its stub, and then on that
\* stub; and an activation whose detection failed raises the detection failure.
C4_ResetOnlyOwnStub ==
    \A t \in Callers :
        /\ Past(t, {"restore", "close", "exit", "done"}) /\ opened[t]
              => resetOn[t] = (IF stub = sess[t] THEN sess[t] ELSE -1)
        /\ (pc[t] = "done" /\ faults[t] = {"detect"}) => outcome[t] = "detect"

\* ---- C5
\* C5: two wrapped calls on the same device never have their raw connections
\* open at the same time.
InWindow(t) == pc[t] \notin {"idle", "done"} /\ sess[t] \in rawOpen

C5_NoOverlap ==
    \A t1, t2 \in Callers : (t1 # t2) => ~(InWindow(t1) /\ InWindow(t2))

\* ---- C6
\* C6: a call that returns has finished its cleanup (hard reset, settings
\* applied, connection closed, session running); a failed operation followed by
\* a clean cleanup raises the operation's failure; a failed cleanup step is what
\* the caller gets, also after a successful operation.
C6_Propagation ==
    \A t \in Callers :
        pc[t] = "done" =>
            /\ outcome[t] = "returned" =>
                  /\ ret[t] # "unset"
                  /\ resetOn[t] = sess[t]
                  /\ lineSettings = settings[t]
                  /\ sess[t] \notin rawOpen
                  /\ bgActive
            /\ ("op" \in faults[t] /\ faults[t] \cap CleanupFaults = {})
                  => outcome[t] = "op"
            /\ \A f \in CleanupFaults : f \in faults[t] => outcome[t] = f

C6_Witness ==
    \E t \in Callers :
        /\ pc[t] = "done"
        /\ ret[t] = "result"
        /\ faults[t] = {"reset"}
        /\ outcome[t] = "reset"

\* ---- C7
\* C7: as long as no step of pyserial or esptool fails, every hard_reset()
\* returns, and after it the redirect session runs, no raw connection is open and
\* the line settings are what they were before the call.
OnlyHardResets == \A i \in DOMAIN ops : ops[i] = "hard_reset"

C7_HardResetTwice ==
    \A t \in Callers :
        (pc[t] = "done" /\ healthy /\ OnlyHardResets) =>
            /\ outcome[t] = "returned"
            /\ bgActive
            /\ rawOpen = {}
            /\ lineSettings = pre[t]

C7_Witness ==
    /\ ops = <<"hard_reset", "hard_reset">>
    /\ healthy
    /\ pc[1] = "done"
    /\ outcome[1] = "returned"
    /\ stub = 2

\* ---- C8
\* the target the caller asked for: beta_target if given, else target
Requested == IF beta_target # None THEN beta_target ELSE target

\* C8: when the requested target is neither "auto" nor a supported chip, the
\* constructor never calls get_default_connected_device and, once past the
\* check, has failed with the unsupported-target error, with or without an
\* explicit port.
C8_UnsupportedNeverDetects ==
    Requested \notin ({"auto"} \cup ESPTOOL_CHIPS) =>
        /\ detectCalls = 0
        /\ cpc \in {"start", "validate", "UnsupportedTarget"}

C8_Witness ==
    /\ cpc = "UnsupportedTarget"
    /\ port # NoPort
    /\ Requested = "stm32"
    /\ detectCalls = 0

\* ---- C9
\* C9: once past the check, the constructor has failed with the
\* unsupported-target error exactly when the requested target is neither
\* absent, nor "auto", nor a supported chip.
C9_AbsentTargetAccepted ==
    cpc \notin {"start", "validate"} =>
        (cpc = "UnsupportedTarget"
            <=> Requested \notin ({None, "auto"} \cup ESPTOOL_CHIPS))

\* ---- C10
\* C10: without an explicit port the list handed to detection holds exactly
\* the listed ports that are not occupied, each once, and the port detection
\* chooses and the device binds is not an occupied one.
C10_OccupiedExcluded ==
    (port = NoPort /\ cpc # "start") =>
        /\ SetOf(ports) = SetOf(available) \ occupied
        /\ \A i, j \in DOMAIN ports : i # j => ports[i] # ports[j]
        /\ found # NoLoader => found.port \notin occupied
        /\ selfPort # NoPort => selfPort \notin occupied

C10_Witness ==
    /\ port = NoPort
    /\ cpc = "constructed"
    /\ SetOf(available) \cap occupied # {}
    /\ Len(available) = 3 /\ Len(ports) = 1
    /\ selfPort = ports[1]

\* ---- C11
\* the candidates the cache, as it was at the call, records for the requested target
CacheHits == {p \in SetOf(ports) : \E i \in DOMAIN cache0 : cache0[i] = <<p, Requested>>}

Discovered == port = NoPort /\ cpc # "start"

\* C11 as stated: in the list handed to detection every candidate cached for
\* the requested target stands before every candidate that is not.
C11_CacheHitFirst ==
    Discovered =>
        LET hits == CacheHits
        IN \A i, j \in DOMAIN ports :
              (ports[i] \in hits /\ ports[j] \notin hits) => i < j

\* C11 amended: in the list handed to detection every candidate cached for the
\* requested target stands after every candidate that is not.
C11_CacheHitLast ==
    Discovered =>
        LET hits == CacheHits
        IN \A i, j \in DOMAIN ports :
              (ports[i] \in hits /\ ports[j] \notin hits) => i > j

C11_Witness ==
    /\ Discovered
    /\ cpc = "detect"
    /\ CacheHits = {2}
    /\ ports = <<1, 3, 2>>

\* ---- C12
\* C12: when get_default_connected_device has returned no device, the
\* constructor has failed with the device-not-found error after that one call:
\* nothing more can happen, no redirect session runs, no port or target is bound
\* and no detection transport is open.
C12_NotFoundIsTerminal ==
    (detectCalls > 0 /\ found = NoLoader) =>
        /\ cpc = "DeviceNotFound"
        /\ detectCalls = 1
        /\ ~ENABLED NextCtor
        /\ ~bgActive
        /\ selfPort = NoPort /\ selfTarget = None
        /\ ~detOpen

C12_Witness ==
    /\ cpc = "DeviceNotFound"
    /\ port = NoPort
    /\ Len(ports) = 3
    /\ detectCalls = 1

\* ---- C13
\* C13: when an activation that opened the raw connection has returned or
\* raised, that connection is closed.
C13_RawClosed ==
    \A t \in Callers :
        (pc[t] = "done" /\ opened[t]) => sess[t] \notin rawOpen

\* ---- C14
\* C14: without an explicit port, the candidates not cached for the requested
\* target stand in ascending order among themselves in the list handed to
\* detection; with no such cached candidate the whole list is ascending; ports
\* 3, 2, 1 listed with 3 occupied and no target give the list 1, 2.
C14_RestStaysSorted ==
    Discovered =>
        LET hits == CacheHits
        IN
        /\ \A i, j \in DOMAIN ports :
              (i < j /\ ports[i] \notin hits /\ ports[j] \notin hits)
                  => ports[i] < ports[j]
        /\ hits = {} => \A i, j \in DOMAIN ports : i < j => ports[i] < ports[j]
        /\ (available = <<3, 2, 1>> /\ occupied = {3} /\ Requested = None)
              => ports = <<1, 2>>

C14_Witness ==
    /\ Discovered
    /\ available = <<3, 2, 1>>
    /\ occupied = {}
    /\ CacheHits = {2}
    /\ ports = <<1, 3, 2>>

\* ---- C15
\* the ports the cache, as it was at the call, records for the requested target
CachedForRequested == {cache0[i][1] : i \in {k \in DOMAIN cache0 : cache0[k][2] = Requested}}

LivePorts == SetOf(available) \ occupied

\* C15: when the cache records ports for the requested target but none of
\* them is a live candidate, the list handed to detection is the one an empty
\* cache gives: the live candidates in ascending order, and nothing else.
C15_DeadCacheEntryIgnored ==
    (Discovered /\ CachedForRequested # {} /\ CachedForRequested \cap LivePorts = {}) =>
        /\ SetOf(ports) = LivePorts
        /\ \A i, j \in DOMAIN ports : i < j => ports[i] < ports[j]

C15_Witness ==
    /\ Discovered
    /\ cpc = "detect"
    /\ CachedForRequested = {2}
    /\ 2 \in occupied
    /\ ports = <<1, 3>>

\* ---- C16
\* C16: a construction that failed with the unsupported-target or the
\* device-not-found error left the cache as it was at the call; the cache
\* differs from that only once _post_init has run, with the port bound and the
\* redirect session started.
C16_FailedCtorLeavesCache ==
    /\ cpc \in {"UnsupportedTarget", "DeviceNotFound"} => cache = cache0
    /\ cache # cache0 =>
          /\ cpc = "constructed"
          /\ selfPort # NoPort /\ bgActive
          /\ cache = CacheSet(cache0, selfPort, selfTarget)

C16_Witness ==
    /\ cpc = "DeviceNotFound"
    /\ Discovered
    /\ CacheHits # {}
    /\ Len(ports) = 3
    /\ cache = cache0

\* ---- C17
\* C17: whatever the order in which devices sharing the cache run their
\* _post_init, the cache holds for every port at most one entry, and it is the
\* target of the last _post_init completed on that port (or the entry the
\* cache had before, if there was none): no bind touches another port's entry
\* and none is lost.
C17_LastBindWins ==
    \A p \in Ports :
        /\ Cardinality({i \in DOMAIN cache : cache[i][1] = p}) <= 1
        /\ CacheTargets(cache, p) = (IF lastBind[p] = None THEN {} ELSE {lastBind[p]})

C17_Witness ==
    /\ overlapped
    /\ dpc = [d \in Devices |-> "bound"]
    /\ devPort[1] # devPort[2]
    /\ started = 3
    /\ Len(cache0) = 1
    /\ Len(cache) = 3
    /\ \E p \in Ports : CacheTargets(cache0, p) # {} /\ CacheTargets(cache, p) # CacheTargets(cache0, p)

\* ---- C18
\* C18: the transport get_default_connected_device opened is never open while
\* the redirect session runs, and it is closed from the moment the constructor
\* goes on to start the session.
C18_DetectionPortClosedFirst ==
    /\ ~(detOpen /\ bgActive)
    /\ cpc \in {"super", "post_init", "constructed"} => ~detOpen

C18_Witness ==
    /\ cpc = "post_init"
    /\ found # NoLoader
    /\ selfPort = found.port
    /\ bgActive
    /\ ~detOpen

====
